---- MODULE Spec2Model ----
(***************************************************************************)
(* Model of basic_bot.py: the signed-request pipeline (BasicBot.request,   *)
(* _timestamped_params, _sign, get_server_time), the order builder         *)
(* (place_order and its MARKET / LIMIT wrappers) and the TWAP scheduler    *)
(* (place_twap_order).  One client instance, one thread of control; the    *)
(* exchange and the transport are the environment and answer every call    *)
(* with any of the outcomes enumerated below.                              *)
(***************************************************************************)
EXTENDS Integers, Sequences, FiniteSets, TLC

VARIABLES
    dry_run,      \* self.dry_run, fixed at construction
    pc,           \* position of the single thread of control
    top,          \* the operation the invoker called ("none" when idle)
    order,        \* arguments of the place_order call in progress
    method,       \* request(): method
    signed,       \* request(): signed
    params,       \* request(): params (ordered key/value pairs)
    full_params,  \* request(): full_params
    signed_over,  \* the ordered parameter set _sign was last applied to
    sent,         \* the parameter set handed to the transport (trading call)
    time_resp,    \* answer of the time endpoint to the last get_server_time
    clock,        \* local wall clock read by the fallback branch
    resp,         \* response of the trading HTTP call
    result,       \* what request() / place_order returns or raises
    symbol,       \* place_twap_order(): symbol
    side,         \* place_twap_order(): side
    quantity,     \* place_twap_order(): quantity
    slices,       \* place_twap_order(): slices
    duration,     \* place_twap_order(): duration
    slice_qty,    \* place_twap_order(): slice_qty
    interval,     \* place_twap_order(): interval
    i,            \* place_twap_order(): loop index
    responses,    \* place_twap_order(): responses
    outcomes,     \* per slice, what the slice's submission did
    events,       \* calls made since the invoker's call began, in order
    sleeps,       \* arguments of the time.sleep calls of this call
    ret           \* what the invoker's call returned or raised

vars == <<dry_run, pc, top, order, method, signed, params, full_params,
          signed_over, sent, time_resp, clock, resp, result, symbol, side, quantity,
          slices, duration, slice_qty, interval, i, responses, outcomes, events, sleeps, ret>>

(***************************************************************************)
(* Bounds of the model.                                                    *)
(***************************************************************************)
MaxSlices == 3
MaxFairSlices == 2
FloatScale == 1000

(***************************************************************************)
(* Program constants.                                                      *)
(***************************************************************************)
RECV_WINDOW == 15000
TESTNET_BASE == "https://testnet.binancefuture.com"
ORDER_PATH == "/fapi/v1/order"

(***************************************************************************)
(* Values.  A parameter value is an int, a float (fixed point, FloatScale  *)
(* units per 1.0) or a string.                                             *)
(***************************************************************************)
IntV(n) == [t |-> "int", i |-> n, s |-> ""]
FloatV(n) == [t |-> "float", i |-> n, s |-> ""]
StrV(x) == [t |-> "str", i |-> 0, s |-> x]

\* float(x)
Float(v) == IF v.t = "float" THEN v ELSE FloatV(v.i * FloatScale)

\* str(x) for the values that occur as parameters
Str(v) == CASE v.t = "int" -> ToString(v.i)
            [] v.t = "float" -> ToString(v.i) \o "e-3"
            [] OTHER -> v.s

\* str(b).lower() for a bool b
BoolLower(b) == IF b THEN "true" ELSE "false"

\* s.upper() on the strings the invoker supplies
Upper(s) == CASE s = "buy" -> "BUY"
              [] s = "sell" -> "SELL"
              [] s = "hold" -> "HOLD"
              [] s = "market" -> "MARKET"
              [] s = "limit" -> "LIMIT"
              [] s = "stop" -> "STOP"
              [] s = "btcusdt" -> "BTCUSDT"
              [] s = "get" -> "GET"
              [] s = "post" -> "POST"
              [] s = "delete" -> "DELETE"
              [] s = "put" -> "PUT"
              [] OTHER -> s

(***************************************************************************)
(* Ordered dicts: a sequence of <<key, value>> pairs without duplicate     *)
(* keys; assignment to an existing key keeps the key's position.           *)
(***************************************************************************)
Keys(d) == [k \in 1..Len(d) |-> d[k][1]]
HasKey(d, key) == \E k \in 1..Len(d) : d[k][1] = key
DictSet(d, key, v) ==
    IF HasKey(d, key)
    THEN [k \in 1..Len(d) |-> IF d[k][1] = key THEN <<key, v>> ELSE d[k]]
    ELSE Append(d, <<key, v>>)
DictGet(d, key) == (CHOOSE k \in 1..Len(d) : d[k][1] = key)

RECURSIVE urlencode(_)
\* urllib.parse.urlencode(params, doseq=True): key=value joined by & in
\* insertion order
urlencode(d) ==
    IF Len(d) = 0 THEN ""
    ELSE IF Len(d) = 1 THEN d[1][1] \o "=" \o Str(d[1][2])
    ELSE d[1][1] \o "=" \o Str(d[1][2]) \o "&" \o urlencode(Tail(d))

\* BasicBot._sign: the HMAC-SHA256 of the query string under the secret
\* (collision-free idealisation: the digest determines the string)
_sign(d) == "hmac-sha256(" \o urlencode(d) \o ")"

(***************************************************************************)
(* The environment: answers of the time endpoint and of the trading        *)
(* endpoint.                                                               *)
(***************************************************************************)
\* answer to GET /fapi/v1/time: the transport fails, or a body arrives that
\* is not JSON, is a JSON object without serverTime, holds a serverTime that
\* is not a number, or holds a numeric serverTime
TimeResponses ==
    { [net |-> "fail", kind |-> "none", st_k |-> "absent", st_v |-> 0],
      [net |-> "ok", kind |-> "nonjson", st_k |-> "absent", st_v |-> 0],
      [net |-> "ok", kind |-> "dict", st_k |-> "absent", st_v |-> 0],
      [net |-> "ok", kind |-> "dict", st_k |-> "str", st_v |-> 0],
      [net |-> "ok", kind |-> "dict", st_k |-> "num", st_v |-> 1000] }
NoTimeResp == [net |-> "none", kind |-> "none", st_k |-> "absent", st_v |-> 0]

\* local clock readings, int(time.time() * 1000)
LocalClock == {5000}

MkBody(kind, code_k, code_v, has_msg, msg, text, repr) ==
    [kind |-> kind, code_k |-> code_k, code_v |-> code_v, has_msg |-> has_msg,
     msg |-> msg, text |-> text, repr |-> repr]

EmptyBody == MkBody("empty", "absent", 0, FALSE, "", "", "{}")
HtmlBody == MkBody("nonjson", "absent", 0, FALSE, "", "<html>Bad Gateway</html>", "")
ListBody == MkBody("list", "absent", 0, FALSE, "", "[1]", "[1]")
FilledBody == MkBody("dict", "absent", 0, FALSE, "", "{\"orderId\":1}", "{'orderId': 1}")
NegCodeBody == MkBody("dict", "num", -1021, TRUE, "Timestamp outside recvWindow",
                      "{\"code\":-1021,\"msg\":\"Timestamp outside recvWindow\"}",
                      "{'code': -1021, 'msg': 'Timestamp outside recvWindow'}")
ZeroCodeBody == MkBody("dict", "num", 0, TRUE, "", "{\"code\":0,\"msg\":\"\"}",
                       "{'code': 0, 'msg': ''}")
PosCodeBody == MkBody("dict", "num", 200, TRUE, "ok", "{\"code\":200,\"msg\":\"ok\"}",
                      "{'code': 200, 'msg': 'ok'}")
StrCodeBody == MkBody("dict", "str", 0, TRUE, "bad", "{\"code\":\"-1021\",\"msg\":\"bad\"}",
                      "{'code': '-1021', 'msg': 'bad'}")

Bodies == {EmptyBody, HtmlBody, ListBody, FilledBody, NegCodeBody,
           ZeroCodeBody, PosCodeBody, StrCodeBody}
Statuses == {200, 304, 400}

\* what the transport does with the trading call: raise a
\* requests.RequestException or deliver a status and a body
HttpResponses ==
    { [net |-> "fail", status |-> 0, body |-> EmptyBody] } \cup
    { [net |-> "ok", status |-> st, body |-> b] : st \in Statuses, b \in Bodies }
NoResp == [net |-> "none", status |-> 0, body |-> EmptyBody]

Is2xx(status) == 200 <= status /\ status < 300

(***************************************************************************)
(* Results.  An entry is a dry-run echo, a response payload, or the        *)
(* {"error": str(e)} mapping of the TWAP loop.                             *)
(***************************************************************************)
NoEntry == [tag |-> "none", method |-> "", url |-> "", params |-> <<>>,
            j |-> EmptyBody, error |-> ""]
MkEcho(m, u, p) == [tag |-> "dry_run", method |-> m, url |-> u, params |-> p,
                    j |-> EmptyBody, error |-> ""]
MkPayload(j) == [tag |-> "payload", method |-> "", url |-> "", params |-> <<>>,
                 j |-> j, error |-> ""]
MkError(msg) == [tag |-> "error", method |-> "", url |-> "", params |-> <<>>,
                 j |-> EmptyBody, error |-> msg]

\* how a call ends: it returns a value or raises an exception of class exc
Returned(v) == [kind |-> "return", exc |-> "", msg |-> "", value |-> v, list |-> <<>>]
ReturnedList(l) == [kind |-> "return", exc |-> "", msg |-> "", value |-> NoEntry, list |-> l]
Raised(exc, msg) == [kind |-> "raise", exc |-> exc, msg |-> msg, value |-> NoEntry, list |-> <<>>]
NoRet == [kind |-> "none", exc |-> "", msg |-> "", value |-> NoEntry, list |-> <<>>]

(***************************************************************************)
(* Clock synchronizer.                                                     *)
(***************************************************************************)
\* BasicBot.get_server_time: session.get raises, resp.json() raises, or
\* data["serverTime"] raises KeyError; otherwise the field is returned
get_server_time(r) ==
    IF r.net = "fail" THEN [raised |-> TRUE, k |-> "absent", v |-> 0]
    ELSE IF r.kind # "dict" THEN [raised |-> TRUE, k |-> "absent", v |-> 0]
    ELSE IF r.st_k = "absent" THEN [raised |-> TRUE, k |-> "absent", v |-> 0]
    ELSE [raised |-> FALSE, k |-> r.st_k, v |-> r.st_v]

\* recvWindow attached inside the try block only
TimestampedParamsWindowInTry(extra, r, now) ==
    IF ~get_server_time(r).raised /\ get_server_time(r).k = "num"
    THEN DictSet(DictSet(extra, "timestamp", IntV(get_server_time(r).v + 500)),
                 "recvWindow", IntV(RECV_WINDOW))
    ELSE DictSet(extra, "timestamp", IntV(now))

\* the try block of _timestamped_params succeeded: the call returned and
\* server_time + 500 did not raise
TimeSyncOk(r) == ~get_server_time(r).raised /\ get_server_time(r).k = "num"

\* BasicBot._timestamped_params, given the time endpoint's answer and the
\* local clock
_timestamped_params(extra, r, now) ==
    LET stamp == IF TimeSyncOk(r) THEN get_server_time(r).v + 500 ELSE now
        p == DictSet(extra, "timestamp", IntV(stamp))
    IN DictSet(p, "recvWindow", IntV(RECV_WINDOW))

(***************************************************************************)
(* Request dispatcher: response classification.                            *)
(***************************************************************************)
\* requests.Response.ok: raise_for_status() does not raise, which it does
\* for 400 <= status < 600
RespOk(status) == ~(400 <= status /\ status < 600)

\* classification by HTTP status alone
ClassifyResponseStatusOnly(r) ==
    LET b == r.body IN
    IF r.net = "fail"
    THEN Raised("RequestException", "Connection aborted")
    ELSE IF b.kind = "nonjson"
    THEN Raised("JSONDecodeError", "Expecting value")
    ELSE IF ~(400 <= r.status /\ r.status < 600)
    THEN Returned(MkPayload(b))
    ELSE IF b.kind = "list"
    THEN Raised("AttributeError", "'list' object has no attribute 'get'")
    ELSE Raised("BinanceAPIError",
                "HTTP " \o ToString(r.status) \o " error: " \o
                (IF b.msg # "" THEN b.msg ELSE b.text))

\* j.get("code") is truthy
CodeTruthy(b) == (b.code_k = "num" /\ b.code_v # 0) \/ b.code_k = "str"

\* request(), lines 130-157: the call raised a RequestException, which is
\* re-raised; otherwise parse the body, then classify
ClassifyResponse(r) ==
    LET b == r.body IN
    IF r.net = "fail"
    THEN Raised("RequestException", "Connection aborted")
    ELSE IF b.kind = "nonjson"
    THEN Raised("JSONDecodeError", "Expecting value")
    ELSE IF ~RespOk(r.status)
    THEN IF b.kind = "list"
         THEN Raised("AttributeError", "'list' object has no attribute 'get'")
         ELSE Raised("BinanceAPIError",
                     "HTTP " \o ToString(r.status) \o " error: " \o
                     (IF b.msg # "" THEN b.msg ELSE b.text))
    ELSE IF b.kind # "list" /\ CodeTruthy(b)
    THEN IF b.code_k = "str"
         THEN Raised("TypeError", "'<' not supported between instances of 'str' and 'int'")
         ELSE IF b.code_v < 0
         THEN Raised("BinanceAPIError", "Binance error: " \o b.repr)
         ELSE Returned(MkPayload(b))
    ELSE Returned(MkPayload(b))

\* the methods request() dispatches
SupportedMethod(m) == Upper(m) \in {"GET", "POST", "DELETE"}

(***************************************************************************)
(* Order builder.                                                          *)
(***************************************************************************)
NoPrice == [some |-> FALSE, v |-> IntV(0)]
SomePrice(x) == [some |-> TRUE, v |-> IntV(x)]

MkOrder(sym, sd, ot, q, pr, tif, ro, cp, ps) ==
    [symbol |-> sym, side |-> sd, order_type |-> ot, quantity |-> q,
     price |-> pr, time_in_force |-> tif, reduce_only |-> ro,
     close_position |-> cp, position_side |-> ps]
NoOrder == MkOrder("", "", "", IntV(0), NoPrice, "", FALSE, FALSE, "")

\* no check of the side
ValidSideAny(sd) == TRUE

ValidSide(sd) == sd \in {"BUY", "SELL"}
ValidType(ot) == ot \in {"MARKET", "LIMIT"}

\* place_order, lines 175-185: the fields every order carries
BaseParams(o) ==
    LET p == << <<"symbol", StrV(Upper(o.symbol))>>,
                <<"side", StrV(Upper(o.side))>>,
                <<"type", StrV(Upper(o.order_type))>>,
                <<"quantity", Float(o.quantity)>>,
                <<"reduceOnly", StrV(BoolLower(o.reduce_only))>>,
                <<"closePosition", StrV(BoolLower(o.close_position))>> >>
    IN IF o.position_side # ""
       THEN DictSet(p, "positionSide", StrV(o.position_side))
       ELSE p

\* the supplied time_in_force is ignored
LimitParamsDefaultTif(o, p) ==
    DictSet(DictSet(p, "price", StrV(Str(o.price.v))), "timeInForce", StrV("GTC"))

\* place_order, lines 187-191: the fields of a LIMIT order
LimitParams(o, p) ==
    DictSet(DictSet(p, "price", StrV(Str(o.price.v))),
            "timeInForce", StrV(o.time_in_force))

\* the order is assembled without the check of the side
BuildOrderSideUnchecked(o) ==
    IF ~ValidType(Upper(o.order_type))
    THEN [ok |-> FALSE, msg |-> "order_type must be MARKET or LIMIT", params |-> <<>>]
    ELSE IF Upper(o.order_type) = "LIMIT"
    THEN IF ~o.price.some
         THEN [ok |-> FALSE, msg |-> "LIMIT orders require a price", params |-> <<>>]
         ELSE [ok |-> TRUE, msg |-> "", params |-> LimitParams(o, BaseParams(o))]
    ELSE [ok |-> TRUE, msg |-> "", params |-> BaseParams(o)]

\* place_order, lines 166-191: normalise, validate, assemble; either the
\* ValueError raised or the parameter set handed to request()
BuildOrder(o) ==
    IF ~ValidSide(Upper(o.side))
    THEN [ok |-> FALSE, msg |-> "side must be BUY or SELL", params |-> <<>>]
    ELSE IF ~ValidType(Upper(o.order_type))
    THEN [ok |-> FALSE, msg |-> "order_type must be MARKET or LIMIT", params |-> <<>>]
    ELSE IF Upper(o.order_type) = "LIMIT"
    THEN IF ~o.price.some
         THEN [ok |-> FALSE, msg |-> "LIMIT orders require a price", params |-> <<>>]
         ELSE [ok |-> TRUE, msg |-> "", params |-> LimitParams(o, BaseParams(o))]
    ELSE [ok |-> TRUE, msg |-> "", params |-> BaseParams(o)]

\* place_market_order: the place_order call it makes
place_market_order(sym, sd, q, ro, ps) ==
    MkOrder(sym, sd, "MARKET", q, NoPrice, "GTC", ro, FALSE, ps)

\* place_limit_order: the place_order call it makes
place_limit_order(sym, sd, q, pr, tif, ro, ps) ==
    MkOrder(sym, sd, "LIMIT", q, pr, tif, ro, FALSE, ps)

(***************************************************************************)
(* Inputs of the invoker.                                                  *)
(***************************************************************************)
Symbols == {"btcusdt"}
Sides == {"BUY", "sell", "hold"}
OrderTypes == {"MARKET", "limit", "stop"}
Quantities == {FloatV(1)}
TwapSides == {"BUY", "hold"}
TwapQuantities == {IntV(1)}
Prices == {NoPrice, SomePrice(0), SomePrice(62000)}
TimeInForces == {"GTC", "IOC"}
PositionSides == {"", "LONG"}
Methods == {"POST", "get", "DELETE", "PUT"}
RequestParams == { <<>>,
                   << <<"symbol", StrV("BTCUSDT")>> >>,
                   << <<"timestamp", IntV(1)>>, <<"symbol", StrV("BTCUSDT")>> >>,
                   << <<"signature", StrV("stale")>>, <<"symbol", StrV("BTCUSDT")>> >> }
SliceCounts == 0..MaxSlices
Durations == {-1, 0, 60}

(***************************************************************************)
(* The state machine.                                                      *)
(***************************************************************************)
twapVars == <<symbol, side, quantity, slices, duration, slice_qty, interval, i>>
reqVars == <<method, signed, params, full_params, signed_over, sent,
             time_resp, clock, resp, result>>

Init ==
    /\ dry_run \in BOOLEAN
    /\ pc = "idle"
    /\ top = "none"
    /\ order = NoOrder
    /\ method = ""
    /\ signed = FALSE
    /\ params = <<>>
    /\ full_params = <<>>
    /\ signed_over = <<>>
    /\ sent = <<>>
    /\ time_resp = NoTimeResp
    /\ clock = 0
    /\ resp = NoResp
    /\ result = NoRet
    /\ symbol = ""
    /\ side = ""
    /\ quantity = IntV(0)
    /\ slices = 0
    /\ duration = 0
    /\ slice_qty = FloatV(0)
    /\ interval = 0
    /\ i = 0
    /\ responses = <<>>
    /\ outcomes = <<>>
    /\ events = <<>>
    /\ sleeps = <<>>
    /\ ret = NoRet

\* one slice without the except clause: the exception leaves the loop
TwapSliceOutcomeAbort(o) ==
    IF o.kind = "return"
    THEN /\ responses' = Append(responses, o.value)
         /\ outcomes' = Append(outcomes, o)
         /\ pc' = "twap_sleep"
         /\ UNCHANGED ret
    ELSE /\ ret' = o
         /\ pc' = "done"
         /\ UNCHANGED <<responses, outcomes>>

\* place_twap_order, lines 222-227: the try/except around one slice
TwapSliceOutcome(o) ==
    /\ responses' = Append(responses,
                           IF o.kind = "return" THEN o.value ELSE MkError(o.msg))
    /\ outcomes' = Append(outcomes, o)
    /\ pc' = "twap_sleep"
    /\ UNCHANGED ret

\* request() and place_order are left: their arguments and locals are gone
PopFrames ==
    /\ order' = NoOrder
    /\ method' = ""
    /\ signed' = FALSE
    /\ params' = <<>>
    /\ full_params' = <<>>
    /\ signed_over' = <<>>
    /\ sent' = <<>>
    /\ time_resp' = NoTimeResp
    /\ clock' = 0
    /\ resp' = NoResp
    /\ result' = NoRet

\* every caller catches the exception and returns an error mapping
PropagateSwallow(o) ==
    /\ PopFrames
    /\ IF top = "place_twap_order"
       THEN TwapSliceOutcome(o)
       ELSE /\ ret' = IF o.kind = "raise" THEN Returned(MkError(o.msg)) ELSE o
            /\ pc' = "done"
            /\ UNCHANGED <<responses, outcomes>>

\* where the outcome of place_order goes: into the TWAP loop's try/except
\* or to the invoker
Propagate(o) ==
    /\ PopFrames
    /\ IF top = "place_twap_order"
       THEN TwapSliceOutcome(o)
       ELSE /\ ret' = o
            /\ pc' = "done"
            /\ UNCHANGED <<responses, outcomes>>

\* the invoker calls request() directly
CallRequest ==
    /\ pc = "idle"
    /\ \E m \in Methods, sg \in BOOLEAN, p \in RequestParams :
          /\ method' = m
          /\ signed' = sg
          /\ params' = p
    /\ top' = "request"
    /\ pc' = "request"
    /\ UNCHANGED <<dry_run, order, full_params, signed_over, sent, time_resp,
                   clock, resp, result, twapVars, responses, outcomes, events,
                   sleeps, ret>>

\* the invoker calls place_order
CallPlaceOrder ==
    /\ pc = "idle"
    /\ \E sym \in Symbols, sd \in Sides, ot \in OrderTypes, q \in Quantities,
          pr \in Prices, tif \in TimeInForces, ro \in BOOLEAN, ps \in PositionSides :
          order' = MkOrder(sym, sd, ot, q, pr, tif, ro, FALSE, ps)
    /\ top' = "place_order"
    /\ pc' = "place_order"
    /\ UNCHANGED <<dry_run, reqVars, twapVars, responses, outcomes, events, sleeps, ret>>

\* the invoker calls place_market_order
CallPlaceMarketOrder ==
    /\ pc = "idle"
    /\ \E sym \in Symbols, sd \in Sides, q \in Quantities, ro \in BOOLEAN,
          ps \in PositionSides :
          order' = place_market_order(sym, sd, q, ro, ps)
    /\ top' = "place_market_order"
    /\ pc' = "place_order"
    /\ UNCHANGED <<dry_run, reqVars, twapVars, responses, outcomes, events, sleeps, ret>>

\* the invoker calls place_limit_order
CallPlaceLimitOrder ==
    /\ pc = "idle"
    /\ \E sym \in Symbols, sd \in Sides, q \in Quantities, pr \in Prices,
          tif \in TimeInForces, ro \in BOOLEAN, ps \in PositionSides :
          order' = place_limit_order(sym, sd, q, pr, tif, ro, ps)
    /\ top' = "place_limit_order"
    /\ pc' = "place_order"
    /\ UNCHANGED <<dry_run, reqVars, twapVars, responses, outcomes, events, sleeps, ret>>

\* only the slice count is validated
TwapArgsErrorSlicesOnly(n, d) ==
    IF n < 1 THEN "slices must be >= 1" ELSE ""

\* place_twap_order, lines 210-213
TwapArgsError(n, d) ==
    IF n < 1 THEN "slices must be >= 1"
    ELSE IF d < 0 THEN "duration must be >= 0"
    ELSE ""

\* place_twap_order, lines 210-219: validate, derive slice_qty and interval
CallPlaceTwapOrder ==
    /\ pc = "idle"
    /\ top' = "place_twap_order"
    /\ \E sym \in Symbols, sd \in TwapSides, q \in TwapQuantities,
          n \in SliceCounts, d \in Durations :
          /\ symbol' = sym
          /\ side' = sd
          /\ quantity' = q
          /\ slices' = n
          /\ duration' = d
          /\ IF TwapArgsError(n, d) # ""
             THEN /\ ret' = Raised("ValueError", TwapArgsError(n, d))
                  /\ pc' = "done"
                  /\ UNCHANGED <<slice_qty, interval>>
             ELSE /\ slice_qty' = FloatV(Float(q).i \div n)
                  /\ interval' = (d * FloatScale) \div n
                  /\ pc' = "twap_loop"
                  /\ UNCHANGED ret
    /\ i' = 0
    /\ responses' = <<>>
    /\ UNCHANGED <<dry_run, order, reqVars, outcomes, events, sleeps>>

\* every slice is placed for the total quantity
TwapSliceTotalQty ==
    /\ pc = "twap_loop"
    /\ i < slices
    /\ order' = place_market_order(symbol, side, quantity, FALSE, "")
    /\ events' = Append(events, "order")
    /\ pc' = "place_order"
    /\ UNCHANGED <<dry_run, top, reqVars, twapVars, responses, outcomes, sleeps, ret>>

\* place_twap_order, lines 220-223: the loop body calls place_market_order
TwapSlice ==
    /\ pc = "twap_loop"
    /\ i < slices
    /\ order' = place_market_order(symbol, side, slice_qty, FALSE, "")
    /\ events' = Append(events, "order")
    /\ pc' = "place_order"
    /\ UNCHANGED <<dry_run, top, reqVars, twapVars, responses, outcomes, sleeps, ret>>

\* a sleep after every slice, the last one included
TwapSleepEverySlice ==
    /\ pc = "twap_sleep"
    /\ IF interval > 0
       THEN /\ events' = Append(events, "sleep")
            /\ sleeps' = Append(sleeps, interval)
       ELSE UNCHANGED <<events, sleeps>>
    /\ i' = i + 1
    /\ pc' = "twap_loop"
    /\ UNCHANGED <<dry_run, top, order, reqVars, symbol, side, quantity, slices,
                   duration, slice_qty, interval, responses, outcomes, ret>>

\* place_twap_order, lines 228-229 and the loop increment
TwapSleep ==
    /\ pc = "twap_sleep"
    /\ IF i < slices - 1 /\ interval > 0
       THEN /\ events' = Append(events, "sleep")
            /\ sleeps' = Append(sleeps, interval)
       ELSE UNCHANGED <<events, sleeps>>
    /\ i' = i + 1
    /\ pc' = "twap_loop"
    /\ UNCHANGED <<dry_run, top, order, reqVars, symbol, side, quantity, slices,
                   duration, slice_qty, interval, responses, outcomes, ret>>

\* the run is over only once the index has passed the slice count
TwapReturnOffByOne ==
    /\ pc = "twap_loop"
    /\ i > slices
    /\ ret' = ReturnedList(responses)
    /\ pc' = "done"
    /\ UNCHANGED <<dry_run, top, order, reqVars, twapVars, responses, outcomes,
                   events, sleeps>>

\* place_twap_order, lines 230-231
TwapReturn ==
    /\ pc = "twap_loop"
    /\ i >= slices
    /\ ret' = ReturnedList(responses)
    /\ pc' = "done"
    /\ UNCHANGED <<dry_run, top, order, reqVars, twapVars, responses, outcomes,
                   events, sleeps>>

\* the order is sent through request() without signed=True
PlaceOrderUnsigned ==
    /\ pc = "place_order"
    /\ IF BuildOrder(order).ok
       THEN /\ method' = "POST"
            /\ signed' = FALSE
            /\ params' = BuildOrder(order).params
            /\ pc' = "request"
            /\ UNCHANGED result
       ELSE /\ result' = Raised("ValueError", BuildOrder(order).msg)
            /\ pc' = "returning"
            /\ UNCHANGED <<method, signed, params>>
    /\ UNCHANGED <<dry_run, top, order, full_params, signed_over, sent, time_resp,
                   clock, resp, twapVars, responses, outcomes, events, sleeps, ret>>

\* place_order, lines 166-194: validate and build, then call request()
PlaceOrder ==
    /\ pc = "place_order"
    /\ IF BuildOrder(order).ok
       THEN /\ method' = "POST"
            /\ signed' = TRUE
            /\ params' = BuildOrder(order).params
            /\ pc' = "request"
            /\ UNCHANGED result
       ELSE /\ result' = Raised("ValueError", BuildOrder(order).msg)
            /\ pc' = "returning"
            /\ UNCHANGED <<method, signed, params>>
    /\ UNCHANGED <<dry_run, top, order, full_params, signed_over, sent, time_resp,
                   clock, resp, twapVars, responses, outcomes, events, sleeps, ret>>

\* request(), line 117: _timestamped_params calls the time endpoint
TimeSync ==
    /\ pc = "request"
    /\ signed
    /\ \E r \in TimeResponses, now \in LocalClock :
          /\ time_resp' = r
          /\ clock' = IF TimeSyncOk(r) THEN 0 ELSE now
          /\ full_params' = _timestamped_params(params, r, now)
    /\ events' = Append(events, "time")
    /\ pc' = "sign"
    /\ UNCHANGED <<dry_run, top, order, method, signed, params, signed_over, sent,
                   resp, result, twapVars, responses, outcomes, sleeps, ret>>

\* the signature computed over the caller's params, before stamping
SignUnstamped ==
    /\ pc = "sign"
    /\ signed_over' = params
    /\ full_params' = DictSet(full_params, "signature", StrV(_sign(params)))
    /\ events' = Append(events, "sign")
    /\ pc' = "dispatch"
    /\ UNCHANGED <<dry_run, top, order, method, signed, params, sent, time_resp,
                   clock, resp, result, twapVars, responses, outcomes, sleeps, ret>>

\* request(), lines 118-119: sign and append the signature
Sign ==
    /\ pc = "sign"
    /\ signed_over' = full_params
    /\ full_params' = DictSet(full_params, "signature", StrV(_sign(full_params)))
    /\ events' = Append(events, "sign")
    /\ pc' = "dispatch"
    /\ UNCHANGED <<dry_run, top, order, method, signed, params, sent, time_resp,
                   clock, resp, result, twapVars, responses, outcomes, sleeps, ret>>

\* request(), line 121: an unsigned request passes params unchanged
Unsigned ==
    /\ pc = "request"
    /\ ~signed
    /\ full_params' = params
    /\ pc' = "dispatch"
    /\ UNCHANGED <<dry_run, top, order, method, signed, params, signed_over, sent,
                   time_resp, clock, resp, result, twapVars, responses, outcomes,
                   events, sleeps, ret>>

\* request(), lines 126-128: the dry-run short circuit
DryRun ==
    /\ pc = "dispatch"
    /\ dry_run
    /\ result' = Returned(MkEcho(method, TESTNET_BASE \o ORDER_PATH, full_params))
    /\ pc' = "returning"
    /\ UNCHANGED <<dry_run, top, order, method, signed, params, full_params,
                   signed_over, sent, time_resp, clock, resp, twapVars, responses,
                   outcomes, events, sleeps, ret>>

\* the trading HTTP call made whatever self.dry_run says
SendEvenInDryRun ==
    /\ pc = "dispatch"
    /\ SupportedMethod(method)
    /\ sent' = full_params
    /\ events' = Append(events, "http")
    /\ \E r \in HttpResponses : resp' = r
    /\ pc' = "classify"
    /\ UNCHANGED <<dry_run, top, order, method, signed, params, full_params,
                   signed_over, time_resp, clock, result, twapVars, responses,
                   outcomes, sleeps, ret>>

\* request(), lines 130-136: the trading HTTP call, which the transport
\* answers or fails
Send ==
    /\ pc = "dispatch"
    /\ ~dry_run
    /\ SupportedMethod(method)
    /\ sent' = full_params
    /\ events' = Append(events, "http")
    /\ \E r \in HttpResponses : resp' = r
    /\ pc' = "classify"
    /\ UNCHANGED <<dry_run, top, order, method, signed, params, full_params,
                   signed_over, time_resp, clock, result, twapVars, responses,
                   outcomes, sleeps, ret>>

\* request(), lines 137-138
Unsupported ==
    /\ pc = "dispatch"
    /\ ~dry_run
    /\ ~SupportedMethod(method)
    /\ result' = Raised("ValueError", "Unsupported method: " \o method)
    /\ pc' = "returning"
    /\ UNCHANGED <<dry_run, top, order, method, signed, params, full_params,
                   signed_over, sent, time_resp, clock, resp, twapVars, responses,
                   outcomes, events, sleeps, ret>>

\* a failed call is attempted a second time
ClassifyRetry ==
    /\ pc = "classify"
    /\ IF resp.net = "fail" /\ Cardinality({k \in 1..Len(events) : events[k] = "http"}) < 2
       THEN /\ pc' = "dispatch"
            /\ UNCHANGED result
       ELSE /\ result' = ClassifyResponse(resp)
            /\ pc' = "returning"
    /\ UNCHANGED <<dry_run, top, order, method, signed, params, full_params,
                   signed_over, sent, time_resp, clock, resp, twapVars, responses,
                   outcomes, events, sleeps, ret>>

\* request(), lines 140-157: the response is parsed and classified; a
\* RequestException of the call is logged and re-raised
Classify ==
    /\ pc = "classify"
    /\ result' = ClassifyResponse(resp)
    /\ pc' = "returning"
    /\ UNCHANGED <<dry_run, top, order, method, signed, params, full_params,
                   signed_over, sent, time_resp, clock, resp, twapVars, responses,
                   outcomes, events, sleeps, ret>>

\* place_order and its wrappers hand on what request() returned or what was
\* raised (lines 194-203), to the TWAP loop or to the invoker
Return ==
    /\ pc = "returning"
    /\ Propagate(result)
    /\ UNCHANGED <<dry_run, top, twapVars, events, sleeps>>

\* the invoker's call is over; the client is ready for the next one
Reset ==
    /\ pc = "done"
    /\ pc' = "idle"
    /\ top' = "none"
    /\ order' = NoOrder
    /\ method' = ""
    /\ signed' = FALSE
    /\ params' = <<>>
    /\ full_params' = <<>>
    /\ signed_over' = <<>>
    /\ sent' = <<>>
    /\ time_resp' = NoTimeResp
    /\ clock' = 0
    /\ resp' = NoResp
    /\ result' = NoRet
    /\ symbol' = ""
    /\ side' = ""
    /\ quantity' = IntV(0)
    /\ slices' = 0
    /\ duration' = 0
    /\ slice_qty' = FloatV(0)
    /\ interval' = 0
    /\ i' = 0
    /\ responses' = <<>>
    /\ outcomes' = <<>>
    /\ events' = <<>>
    /\ sleeps' = <<>>
    /\ ret' = NoRet
    /\ UNCHANGED dry_run

Next ==
    \/ CallRequest
    \/ CallPlaceOrder
    \/ CallPlaceMarketOrder
    \/ CallPlaceLimitOrder
    \/ CallPlaceTwapOrder
    \/ TwapSlice
    \/ TwapSleep
    \/ TwapReturn
    \/ PlaceOrder
    \/ TimeSync
    \/ Sign
    \/ Unsigned
    \/ DryRun
    \/ Send
    \/ Unsupported
    \/ Classify
    \/ Return
    \/ Reset

Spec == Init /\ [][Next]_vars

\* place_twap_order called with at most MaxFairSlices slices
CallPlaceTwapOrderShort == CallPlaceTwapOrder /\ slices' <= MaxFairSlices

FairNext ==
    \/ CallRequest
    \/ CallPlaceOrder
    \/ CallPlaceMarketOrder
    \/ CallPlaceLimitOrder
    \/ CallPlaceTwapOrderShort
    \/ TwapSlice
    \/ TwapSleep
    \/ TwapReturn
    \/ PlaceOrder
    \/ TimeSync
    \/ Sign
    \/ Unsigned
    \/ DryRun
    \/ Send
    \/ Unsupported
    \/ Classify
    \/ Return
    \/ Reset

\* the single thread always takes its next step: every HTTP call is answered
\* or fails and every sleep ends
FairSpec == Init /\ [][FairNext]_vars /\ WF_vars(FairNext)

(***************************************************************************)
(* Properties.                                                             *)
(***************************************************************************)
Count(seq, x) == Cardinality({k \in 1..Len(seq) : seq[k] = x})
\* calls that reach the network: the time endpoint and the trading endpoint
NetworkCalls(ev) == Count(ev, "time") + Count(ev, "http")
Lookup(d, key) == d[DictGet(d, key)][2]
SingleOrderOps == {"place_order", "place_market_order", "place_limit_order"}

\* C1: TWAP failure isolation.  A run with slices = N >= 1 and duration >= 0
\* ends by returning N entries after N slices were attempted, whatever
\* failed; position k holds an error entry if slice k raised and that
\* slice's response if it returned.
C1_FailureIsolation ==
    (top = "place_twap_order" /\ pc = "done" /\ slices >= 1 /\ duration >= 0) =>
        /\ ret.kind = "return"
        /\ Len(ret.list) = slices
        /\ Len(outcomes) = slices
        /\ Count(events, "order") = slices
        /\ \A k \in 1..slices :
              IF outcomes[k].kind = "raise"
              THEN ret.list[k].tag = "error" /\ ret.list[k].error = outcomes[k].msg
              ELSE ret.list[k] = outcomes[k].value

C1_Witness ==
    /\ top = "place_twap_order"
    /\ pc = "done"
    /\ slices = 3
    /\ Len(outcomes) = 3
    /\ outcomes[1].exc = "RequestException"
    /\ outcomes[2].kind = "return"
    /\ outcomes[3].exc = "BinanceAPIError"
    /\ Len(ret.list) = 3

\* C2: dry-run non-emission.  With dry-run enabled, place_market_order makes
\* no network call of any kind (time-sync or order) and returns an echo
\* whose params hold the order fields, timestamp, recvWindow and signature.
C2_DryRunZeroNetworkCalls ==
    (dry_run /\ top = "place_market_order" /\ pc = "done" /\ ret.kind = "return") =>
        /\ NetworkCalls(events) = 0
        /\ ret.value.tag = "dry_run"
        /\ HasKey(ret.value.params, "timestamp")
        /\ HasKey(ret.value.params, "recvWindow")
        /\ HasKey(ret.value.params, "signature")

\* C3: functional-error detection.  A response with a 2xx status whose body
\* is an object with a negative numeric code is never returned by request():
\* it is raised as BinanceAPIError.
NegativeCode(b) == b.kind = "dict" /\ b.code_k = "num" /\ b.code_v < 0

C3_FunctionalError ==
    (pc = "returning" /\ resp.net = "ok" /\ Is2xx(resp.status)
       /\ NegativeCode(resp.body)) =>
        (result.kind = "raise" /\ result.exc = "BinanceAPIError")

C3_Witness ==
    /\ pc = "returning"
    /\ top = "request"
    /\ resp.net = "ok"
    /\ resp.status = 200
    /\ resp.body = NegCodeBody
    /\ result.exc = "BinanceAPIError"

\* C4: non-2xx classification.  For every response with a non-2xx status,
\* whatever its body, request() raises BinanceAPIError carrying the body's
\* msg field, or the raw body when the field is absent.
C4_Non2xxIsApiError ==
    (pc = "returning" /\ resp.net = "ok" /\ ~Is2xx(resp.status)) =>
        /\ result.kind = "raise"
        /\ result.exc = "BinanceAPIError"
        /\ result.msg = "HTTP " \o ToString(resp.status) \o " error: " \o
                        (IF resp.body.has_msg THEN resp.body.msg ELSE resp.body.text)

\* C5: validation precedes I/O for single orders.  When place_order (directly
\* or through a wrapper) is called with a side outside {BUY, SELL} or a type
\* outside {MARKET, LIMIT} after upper-casing, or with type LIMIT and no
\* price, it raises ValueError and no network call has been made.
InvalidOrder(o) ==
    \/ Upper(o.side) \notin {"BUY", "SELL"}
    \/ Upper(o.order_type) \notin {"MARKET", "LIMIT"}
    \/ (Upper(o.order_type) = "LIMIT" /\ ~o.price.some)

C5_ValidationBeforeIO ==
    (top \in SingleOrderOps /\ order # NoOrder /\ InvalidOrder(order)) =>
        /\ pc \in {"place_order", "returning"}
        /\ NetworkCalls(events) = 0
        /\ sent = <<>>
        /\ pc = "returning" => (result.kind = "raise" /\ result.exc = "ValueError")

C5_Witness ==
    /\ top = "place_order"
    /\ pc = "returning"
    /\ Upper(order.side) = "SELL"
    /\ Upper(order.order_type) = "LIMIT"
    /\ ~order.price.some
    /\ result.exc = "ValueError"
    /\ events = <<>>

\* C6: TWAP fail-fast validation.  place_twap_order with slices < 1 or
\* duration < 0 raises ValueError before anything else: no slice, no network
\* call, no sleep, no result sequence.
C6_TwapFailFast ==
    (top = "place_twap_order" /\ (slices < 1 \/ duration < 0)) =>
        /\ pc = "done"
        /\ ret.kind = "raise"
        /\ ret.exc = "ValueError"
        /\ events = <<>>
        /\ sleeps = <<>>
        /\ responses = <<>>
        /\ ret.list = <<>>

C6_Witness ==
    /\ top = "place_twap_order"
    /\ pc = "done"
    /\ slices = 2
    /\ duration = -1
    /\ ret.exc = "ValueError"

\* C7: TWAP cadence.  A run with slices = N and interval = duration / N
\* invokes the market-order path N times; when interval > 0 it sleeps for
\* exactly interval after each of slices 1..N-1, succeeded or failed, and
\* not after slice N (N-1 sleeps); when interval = 0 it never sleeps.
C7_TwapCadence ==
    (top = "place_twap_order" /\ pc = "done" /\ ret.kind = "return") =>
        /\ interval = (duration * FloatScale) \div slices
        /\ Count(events, "order") = slices
        /\ Count(events, "sleep") = Len(sleeps)
        /\ IF interval > 0
           THEN /\ Len(sleeps) = slices - 1
                /\ \A k \in 1..Len(sleeps) : sleeps[k] = interval
                /\ \A k \in 2..Len(events) :
                      events[k] = "order" => events[k - 1] = "sleep"
           ELSE sleeps = <<>>
        /\ \A k \in 1..Len(events) :
              events[k] = "sleep" => (k < Len(events) /\ events[k + 1] = "order")

C7_Witness ==
    /\ top = "place_twap_order"
    /\ pc = "done"
    /\ slices = 3
    /\ interval > 0
    /\ Len(sleeps) = 2
    /\ Len(outcomes) = 3
    /\ outcomes[1].kind = "raise"
    /\ outcomes[2].kind = "return"

\* C8: clock-sync degradation.  Whatever the time endpoint does, a signed
\* request goes on: stamped serverTime + 500 when the call delivered a
\* numeric serverTime, the local clock otherwise, recvWindow = 15000 in both
\* cases, then signed and dispatched.
TimeDelivered(r) == r.net = "ok" /\ r.kind = "dict" /\ r.st_k = "num"

C8_ClockSyncDegradation ==
    (signed /\ time_resp # NoTimeResp) =>
        /\ pc \in {"sign", "dispatch", "classify", "returning"}
        /\ HasKey(full_params, "timestamp")
        /\ Lookup(full_params, "timestamp") =
              IntV(IF TimeDelivered(time_resp) THEN time_resp.st_v + 500 ELSE clock)
        /\ ~TimeDelivered(time_resp) => clock \in LocalClock
        /\ HasKey(full_params, "recvWindow")
        /\ Lookup(full_params, "recvWindow") = IntV(15000)
        /\ pc = "returning" =>
              /\ Count(events, "sign") = Count(events, "time")
              /\ dry_run \/ ~SupportedMethod(method) \/ sent = full_params
              /\ dry_run => result.kind = "return"

C8_Witness ==
    /\ pc = "returning"
    /\ signed
    /\ time_resp.net = "fail"
    /\ ~dry_run
    /\ sent # <<>>
    /\ Lookup(sent, "timestamp") = IntV(5000)
    /\ result.kind = "return"

\* C9: unsupported method rejected before network activity.  Outside dry-run,
\* request() with a method other than GET, POST or DELETE, signed or not,
\* raises ValueError and has made no network call of any kind.
C9_UnsupportedBeforeNetwork ==
    (pc = "returning" /\ top = "request" /\ ~dry_run /\ ~SupportedMethod(method)) =>
        /\ result.kind = "raise"
        /\ result.exc = "ValueError"
        /\ NetworkCalls(events) = 0

\* C10: signed envelope integrity.  What a signed request transmits, or
\* echoes in dry-run, is the ordered parameter set that was signed followed
\* by the signature as last field; for an order that set is symbol, side,
\* type, quantity, reduceOnly, closePosition, [positionSide], [price,
\* timeInForce], timestamp, recvWindow, the caller's fields unchanged.
OrderKeys(o) ==
    <<"symbol", "side", "type", "quantity", "reduceOnly", "closePosition">>
    \o (IF o.position_side # "" THEN <<"positionSide">> ELSE <<>>)
    \o (IF Upper(o.order_type) = "LIMIT" THEN <<"price", "timeInForce">> ELSE <<>>)

Envelope(p) ==
    /\ Len(p) = Len(signed_over) + 1
    /\ SubSeq(p, 1, Len(p) - 1) = signed_over
    /\ p[Len(p)][1] = "signature"
    /\ p[Len(p)][2] = StrV(_sign(SubSeq(p, 1, Len(p) - 1)))

RequestStart(ev) ==
    IF \E k \in 1..Len(ev) : ev[k] = "order"
    THEN CHOOSE k \in 1..Len(ev) :
            ev[k] = "order" /\ \A m \in (k + 1)..Len(ev) : ev[m] # "order"
    ELSE 0
\* trading HTTP calls of the request in progress (the last one begun)
HttpThisRequest ==
    Cardinality({k \in (RequestStart(events) + 1)..Len(events) : events[k] = "http"})

C11_NoRetry ==
    /\ HttpThisRequest <= 1
    /\ (pc = "returning" /\ resp.net = "fail") =>
          /\ result.kind = "raise"
          /\ result.exc = "RequestException"
          /\ result.exc \notin {"BinanceAPIError", "ValueError"}
          /\ HttpThisRequest = 1
    /\ (pc = "returning" /\ result.exc = "BinanceAPIError") =>
          (resp.net = "ok" /\ HttpThisRequest = 1)

C11_Witness ==
    /\ top = "request"
    /\ pc = "returning"
    /\ resp.net = "fail"
    /\ result.exc = "RequestException"
    /\ Cardinality({k \in 1..Len(events) : events[k] = "http"}) = 1

\* C12: error propagation policy.  An exception raised inside place_order,
\* place_market_order or place_limit_order reaches the invoker as it was
\* raised, never as a returned value; inside place_twap_order it becomes the
\* error entry of the slice in progress and the run goes on; the
\* slices / duration validation of place_twap_order itself is raised.
C12_RaisedStep ==
    (pc = "returning" /\ result.kind = "raise" /\ top # "request") =>
        IF top = "place_twap_order"
        THEN /\ pc' = "twap_sleep"
             /\ ret' = NoRet
             /\ responses' = Append(responses, MkError(result.msg))
        ELSE /\ pc' = "done"
             /\ ret' = result
             /\ ret'.exc \in {"ValueError", "RequestException", "BinanceAPIError",
                              "JSONDecodeError", "AttributeError", "TypeError"}

C12_ReturnedState ==
    /\ (top \in SingleOrderOps /\ pc = "done" /\ ret.kind = "return") =>
          ret.value.tag \in {"dry_run", "payload"}
    /\ (top = "place_twap_order" /\ pc = "done" /\ ret.kind = "raise") =>
          (ret.exc = "ValueError" /\ (slices < 1 \/ duration < 0) /\ events = <<>>)

C12_ErrorPropagation == [][C12_RaisedStep]_vars /\ []C12_ReturnedState

C12_Witness ==
    /\ top = "place_limit_order"
    /\ pc = "done"
    /\ ret.kind = "raise"
    /\ ret.exc = "BinanceAPIError"
    /\ Cardinality({k \in 1..Len(events) : events[k] = "http"}) = 1

\* C13: TWAP quantity conservation and ordering.  With slices = N every
\* slice requests total / N, the N requested quantities add up to the total
\* within the rounding of one division per slice, and the call returns N
\* entries, entry k being the outcome of the k-th order submitted.
TotalUnits == Float(quantity).i
Abs(x) == IF x < 0 THEN 0 - x ELSE x

C13_QuantityConservation ==
    (top = "place_twap_order" /\ slices >= 1 /\ duration >= 0) =>
        /\ slice_qty = FloatV(TotalUnits \div slices)
        /\ Abs(TotalUnits - slices * slice_qty.i) < slices
        /\ order # NoOrder => order.quantity = slice_qty
        /\ params # <<>> =>
              (HasKey(params, "quantity") /\ Lookup(params, "quantity") = slice_qty)
        /\ sent # <<>> =>
              (HasKey(sent, "quantity") /\ Lookup(sent, "quantity") = slice_qty)
        /\ Len(responses) = Len(outcomes)
        /\ Count(events, "order") \in {Len(outcomes), Len(outcomes) + 1}
        /\ \A k \in 1..Len(responses) :
              /\ responses[k].tag = "error" <=> outcomes[k].kind = "raise"
              /\ outcomes[k].kind = "return" => responses[k] = outcomes[k].value
              /\ responses[k].tag = "dry_run" =>
                    Lookup(responses[k].params, "quantity") = slice_qty
        /\ pc = "done" =>
              (ret.kind = "return" /\ ret.list = responses /\ Len(ret.list) = slices)

C13_Witness ==
    /\ top = "place_twap_order"
    /\ pc = "done"
    /\ slices = 3
    /\ slice_qty.i * 3 # TotalUnits
    /\ Len(ret.list) = 3
    /\ ret.list[1].tag = "dry_run"
    /\ Lookup(ret.list[3].params, "quantity") = slice_qty

\* C14: LIMIT requires price.  place_order with type LIMIT and no price
\* always raises ValueError; with type LIMIT and a price X it always builds
\* the order, whose parameter set holds price = str(X) and the supplied
\* timeInForce; a parameter set handed to request() holds price and
\* timeInForce if and only if its type is LIMIT.
OrderInHand == top \in SingleOrderOps /\ order # NoOrder
IsLimit(o) == Upper(o.order_type) = "LIMIT"

C14_NoPriceFails ==
    (OrderInHand /\ IsLimit(order) /\ ~order.price.some) =>
        /\ pc \in {"place_order", "returning"}
        /\ params = <<>>
        /\ pc = "returning" => (result.kind = "raise" /\ result.exc = "ValueError")

C14_Built ==
    /\ params # <<>>
    /\ HasKey(params, "price")
    /\ Lookup(params, "price") = StrV(Str(order.price.v))
    /\ HasKey(params, "timeInForce")
    /\ Lookup(params, "timeInForce") = StrV(order.time_in_force)

C14_LimitIffPrice ==
    (top # "request" /\ params # <<>>) =>
        /\ HasKey(params, "price") <=> Lookup(params, "type") = StrV("LIMIT")
        /\ HasKey(params, "timeInForce") <=> Lookup(params, "type") = StrV("LIMIT")

\* the claim as stated: any LIMIT order with a price is built
C14_LimitRequiresPrice ==
    /\ C14_NoPriceFails
    /\ (OrderInHand /\ IsLimit(order) /\ order.price.some /\ pc # "place_order") =>
          C14_Built
    /\ C14_LimitIffPrice

\* the claim amended: a LIMIT order with a price and a side that is BUY or
\* SELL after upper-casing is built
C14_LimitRequiresPriceValidSide ==
    /\ C14_NoPriceFails
    /\ (OrderInHand /\ IsLimit(order) /\ order.price.some /\ pc # "place_order"
          /\ Upper(order.side) \in {"BUY", "SELL"}) =>
          C14_Built
    /\ C14_LimitIffPrice

C14_Witness ==
    /\ top = "place_limit_order"
    /\ pc = "classify"
    /\ order.price = SomePrice(0)
    /\ order.time_in_force = "IOC"
    /\ Lookup(sent, "price") = StrV("0")
    /\ Lookup(sent, "timeInForce") = StrV("IOC")

\* C15: TWAP termination.  With slices >= 1 and duration >= 0, whatever each
\* slice does, place_twap_order eventually returns, provided every HTTP call
\* and every sleep completes; and it returns only after all N slices were
\* attempted.
TwapRunning == top = "place_twap_order" /\ pc # "done"
TwapReturned == top = "place_twap_order" /\ pc = "done" /\ ret.kind = "return"

C15_TwapTerminates ==
    /\ TwapRunning ~> TwapReturned
    /\ [](TwapReturned =>
            (Count(events, "order") = slices /\ Len(outcomes) = slices /\ i = slices))

C15_Witness ==
    /\ TwapReturned
    /\ slices = 2
    /\ duration = 60
    /\ Len(outcomes) = 2
    /\ outcomes[1].exc = "RequestException"
    /\ outcomes[2].exc = "BinanceAPIError"

\* C16: dry-run never reaches the trading endpoint.  On a dry-run client no
\* operation ever performs the GET / POST / DELETE of a request; every valid
\* order call and every direct request returns the echo, a TWAP run of N
\* slices returns N echoes, and invalid input fails as it does without
\* dry-run: ValueError raised by the order operations and by the slices /
\* duration check, an error entry per slice for an invalid TWAP side.
C16_DryRunNeverSends ==
    dry_run =>
        /\ Count(events, "http") = 0
        /\ sent = <<>>
        /\ resp = NoResp
        /\ pc # "classify"
        /\ pc = "returning" =>
              IF top # "request" /\ InvalidOrder(order)
              THEN result.kind = "raise" /\ result.exc = "ValueError"
              ELSE /\ result.kind = "return"
                   /\ result.value.tag = "dry_run"
                   /\ result.value.params = full_params
        /\ (pc = "done" /\ top # "place_twap_order") =>
              \/ ret.kind = "return" /\ ret.value.tag = "dry_run"
              \/ ret.kind = "raise" /\ ret.exc = "ValueError" /\ top # "request"
        /\ (pc = "done" /\ top = "place_twap_order") =>
              IF slices < 1 \/ duration < 0
              THEN ret.kind = "raise" /\ ret.exc = "ValueError"
              ELSE /\ ret.kind = "return"
                   /\ Len(ret.list) = slices
                   /\ \A k \in 1..slices :
                         ret.list[k].tag =
                            (IF Upper(side) \in {"BUY", "SELL"} THEN "dry_run" ELSE "error")

C16_Witness ==
    /\ dry_run
    /\ top = "place_twap_order"
    /\ pc = "done"
    /\ slices = 3
    /\ Len(ret.list) = 3
    /\ \A k \in 1..3 : ret.list[k].tag = "dry_run"
    /\ Count(events, "time") = 3

\* C17: per-request event order.  A signed request that reaches the exchange
\* makes exactly one time-sync call, which is over before the signature is
\* computed, and the signature is computed before the trading HTTP call; in
\* a TWAP run the calls of slice k all come before the sleep after slice k
\* and before the calls of slice k+1, time-sync and order calls alternating,
\* with at most N order calls.
C17_Pattern ==
    /\ \A k \in 1..Len(events) :
          /\ events[k] = "sign" => (k > 1 /\ events[k - 1] = "time")
          /\ (events[k] = "http" /\ top # "request") =>
                (k > 2 /\ events[k - 1] = "sign" /\ events[k - 2] = "time")
          /\ events[k] = "time" =>
                IF top = "place_twap_order"
                THEN k > 1 /\ events[k - 1] = "order"
                ELSE k = 1
          /\ events[k] = "sleep" =>
                /\ k > 1
                /\ events[k - 1] \in {"order", "sign", "http"}
                /\ k < Len(events) => events[k + 1] = "order"
          /\ (events[k] = "order" /\ k > 1) =>
                events[k - 1] \in {"order", "sign", "http", "sleep"}
    /\ (signed /\ pc \in {"classify", "returning"} /\ sent # <<>>) =>
          /\ Len(events) >= 3
          /\ SubSeq(events, Len(events) - 2, Len(events)) = <<"time", "sign", "http">>
          /\ HttpThisRequest = 1
    /\ top = "place_twap_order" => Count(events, "http") <= Count(events, "order")

\* the claim as stated: N time-sync calls in every TWAP run of N slices
C17_EventOrder ==
    /\ C17_Pattern
    /\ TwapReturned =>
          (Count(events, "time") = slices /\ Count(events, "http") <= slices)

\* the claim amended: N time-sync calls when the side is BUY or SELL after
\* upper-casing, none otherwise
C17_EventOrderValidSide ==
    /\ C17_Pattern
    /\ TwapReturned =>
          /\ Count(events, "http") <= slices
          /\ Count(events, "time") =
                (IF Upper(side) \in {"BUY", "SELL"} THEN slices ELSE 0)
          /\ (~dry_run /\ Upper(side) \in {"BUY", "SELL"}) =>
                Count(events, "http") = slices

C17_Witness ==
    /\ TwapReturned
    /\ ~dry_run
    /\ slices = 3
    /\ events = <<"order", "time", "sign", "http", "sleep",
                 "order", "time", "sign", "http", "sleep",
                 "order", "time", "sign", "http">>

\* C18: a TWAP with an invalid side is not rejected up front.  With valid
\* slices = N and duration and a side outside {BUY, SELL}, place_twap_order
\* raises nothing: it runs the whole schedule, the N-1 sleeps included when
\* interval > 0, makes no network call and returns N error entries.
C18_TwapInvalidSide ==
    (top = "place_twap_order" /\ slices >= 1 /\ duration >= 0
       /\ Upper(side) \notin {"BUY", "SELL"}) =>
        /\ ret.kind # "raise"
        /\ NetworkCalls(events) = 0
        /\ sent = <<>>
        /\ \A k \in 1..Len(responses) :
              /\ responses[k].tag = "error"
              /\ responses[k].error = "side must be BUY or SELL"
        /\ pc = "done" =>
              /\ ret.kind = "return"
              /\ Len(ret.list) = slices
              /\ \A k \in 1..slices : ret.list[k].tag = "error"
              /\ Count(events, "order") = slices
              /\ Len(sleeps) = (IF interval > 0 THEN slices - 1 ELSE 0)
              /\ \A k \in 1..Len(sleeps) : sleeps[k] = interval

C18_Witness ==
    /\ top = "place_twap_order"
    /\ pc = "done"
    /\ side = "hold"
    /\ slices = 3
    /\ duration = 60
    /\ Len(ret.list) = 3
    /\ ret.list[3].tag = "error"
    /\ Len(sleeps) = 2

====
